---- MODULE Spec2Model ----
(***************************************************************************)
(* Model of the pdf2png MCP server (src/src/pdf2png/server.py): the tool   *)
(* dispatcher handle_call_tool and the two pipelines _convert_pdf_only and *)
(* _convert_and_upload_pdf, run as asyncio coroutines on one event loop,   *)
(* with download_file and post_file run on executor threads.               *)
(***************************************************************************)
EXTENDS Integers, Sequences, FiniteSets, TLC

\* ---------------------------------------------------------------- bounds
MaxPages == 2
NumTemp == 2
NumReqs == 2

Reqs == 1..NumReqs
TempNames == 1..NumTemp
Pages == 1..MaxPages

\* ------------------------------------------------- argument-mapping values
\* A value obtained by arguments.get(key): None when the key is absent.
None == [some |-> FALSE, val |-> <<>>]
Some(s) == [some |-> TRUE, val |-> s]
\* Python truthiness of an Optional[str]: None and "" are falsy.
Truthy(x) == x.some /\ x.val # <<>>

HttpUrl == <<"h", "t", "t", "p", ":", "/", "/", "a">>
HttpsUrl == <<"h", "t", "t", "p", "s", ":", "/", "/", "a">>
LocalPath == <<"/", "a">>
FtpPath == <<"f", "t", "p", ":", "/", "/", "a">>
ReadPaths == {None, Some(<<>>), Some(HttpUrl), Some(HttpsUrl), Some(LocalPath), Some(FtpPath)}
FolderPaths == {None, Some(<<>>), Some(<<"o", "u", "t">>)}
UploadUrls == {None, Some(<<>>), Some(<<"u">>)}
\* credentials are byte strings (ASCII codes); 58 is ':'
Usernames == {None, Some(<<>>), Some(<<97>>), Some(<<97, 98>>)}
Passwords == {None, Some(<<>>), Some(<<122>>), Some(<<58, 122>>)}
ToolNames == {"pdf2png", "pdf2png_upload", "other"}
\* what the rasterizer makes of the source document: a page count, or -1 when
\* the document is missing, unreadable or corrupt
DocKinds == (0..MaxPages) \cup {-1}

\* The argument mappings a caller can send. empty is the mapping None or {};
\* it has no keys, so every get() of it yields None.
ArgMaps == { a \in [empty : BOOLEAN, read_file_path : ReadPaths, write_folder_path : FolderPaths,
                    upload_url : UploadUrls, auth_username : Usernames, auth_password : Passwords] :
             a.empty => /\ a.read_file_path = None /\ a.write_folder_path = None
                        /\ a.upload_url = None /\ a.auth_username = None /\ a.auth_password = None }

\* ------------------------------------------------------------- is_url
\* re.match(r'^https?://', path): "http", an optional "s", then "://"
HasPrefix(s, p) == Len(s) >= Len(p) /\ SubSeq(s, 1, Len(p)) = p

\* variant: any scheme followed by "://" counts as a URL
is_url_anyScheme(path) ==
    \E n \in 1..Len(path) : n + 2 <= Len(path) /\ SubSeq(path, n, n + 2) = <<":", "/", "/">>

is_url(path) ==
    \/ HasPrefix(path, <<"h", "t", "t", "p", ":", "/", "/">>)
    \/ HasPrefix(path, <<"h", "t", "t", "p", "s", ":", "/", "/">>)

\* ------------------------------------------------------------- base64
B64Alphabet ==
    [i \in 0..63 |-> IF i < 26 THEN 65 + i
                     ELSE IF i < 52 THEN 97 + (i - 26)
                     ELSE IF i < 62 THEN 48 + (i - 52)
                     ELSE IF i = 62 THEN 43 ELSE 47]
B64Pad == 61

\* b64encode: each group of three bytes becomes four characters; a final group
\* of one or two bytes is zero-filled and padded with '='
RECURSIVE b64encode(_)
b64encode(bytes) ==
    IF Len(bytes) = 0 THEN <<>>
    ELSE IF Len(bytes) = 1 THEN
        LET n == bytes[1] * 65536
        IN <<B64Alphabet[n \div 262144], B64Alphabet[(n \div 4096) % 64], B64Pad, B64Pad>>
    ELSE IF Len(bytes) = 2 THEN
        LET n == bytes[1] * 65536 + bytes[2] * 256
        IN <<B64Alphabet[n \div 262144], B64Alphabet[(n \div 4096) % 64],
             B64Alphabet[(n \div 64) % 64], B64Pad>>
    ELSE
        LET n == bytes[1] * 65536 + bytes[2] * 256 + bytes[3]
        IN <<B64Alphabet[n \div 262144], B64Alphabet[(n \div 4096) % 64],
             B64Alphabet[(n \div 64) % 64], B64Alphabet[n % 64]>>
           \o b64encode(SubSeq(bytes, 4, Len(bytes)))

\* ------------------------------------------------------------- post_file
BasicPrefix == <<66, 97, 115, 105, 99, 32>>
Colon == 58
NoHeader == [present |-> FALSE, value |-> <<>>]

\* variant: the header is sent whenever a username is given
UseBasicAuth_usernameOnly(username, password) == Truthy(username)

\* post_file line 48: if username and password
UseBasicAuth(username, password) == Truthy(username) /\ Truthy(password)

\* post_file lines 49-50: b"Basic " + b64encode(f"{username}:{password}".encode())
AuthHeaderValue(username, password) ==
    BasicPrefix \o b64encode(username.val \o <<Colon>> \o password.val)

\* the Authorization header of one POST (lines 43-51)
AuthHeader(username, password) ==
    IF UseBasicAuth(username, password)
    THEN [present |-> TRUE, value |-> AuthHeaderValue(username, password)]
    ELSE NoHeader

\* ------------------------------------------------------------- state
VARIABLES
    name,            \* per request: the tool name of the call
    arguments,       \* per request: the argument mapping of the call
    doc,             \* per request: what the source document rasterizes to
    pc,              \* per request: position of the coroutine / worker thread
    running,         \* the request whose coroutine holds the event loop, or 0
    temp_pdf_path,   \* per request: 0 (None) or the temporary file's name
    read_tmp,        \* per request: 0 while read_file_path is the argument, else the temp name
    images,          \* per request: number of images convert_from_path returned
    created_pngs,    \* per request: created_pngs / output_files, as page numbers
    i,               \* per request: index of the enumerate(images) loop
    ui,              \* per request: position of the upload loop in created_pngs
    di,              \* per request: position of the delete loop in created_pngs
    uploaded_count,  \* per request
    fut,             \* per request: outcome of the executor future awaited
    exc,             \* per request: the exception propagating, or "none"
    result,          \* per request: what the call returned or raised
    tmpFiles,        \* filesystem: the temporary files that exist
    dirExists,       \* filesystem: whether the destination directory exists
    pngs,            \* filesystem: page number -> request that wrote page_k.png, 0 if absent
    log              \* per request: the filesystem and network operations it performed

vars == <<name, arguments, doc, pc, running, temp_pdf_path, read_tmp, images, created_pngs,
          i, ui, di, uploaded_count, fut, exc, result, tmpFiles, dirExists, pngs, log>>

inputs == <<name, arguments, doc>>
locals == <<temp_pdf_path, read_tmp, images, created_pngs, i, ui, di, uploaded_count, fut, exc>>
fs == <<tmpFiles, dirExists, pngs>>

NoResult == [kind |-> "none", pages |-> 0, uploaded |-> 0, auth |-> "", err |-> ""]
Error(e) == [kind |-> "error", pages |-> 0, uploaded |-> 0, auth |-> "", err |-> e]
\* line 163: "Successfully converted PDF to {len(output_files)} PNG files in ..."
SummaryOnly(n) == [kind |-> "ok", pages |-> n, uploaded |-> -1, auth |-> "", err |-> ""]
\* line 245: "... to {len(created_pngs)} PNG files, uploaded {uploaded_count} of them to ...{auth_str} ..."
SummaryUpload(n, m, a) == [kind |-> "ok", pages |-> n, uploaded |-> m, auth |-> a, err |-> ""]

Entry(op, k, ok) == [op |-> op, k |-> k, ok |-> ok, hdr |-> NoHeader, owner |-> 0]
Logged(r, e) == log' = [log EXCEPT ![r] = Append(@, e)]

NoArgs == [empty |-> TRUE, read_file_path |-> None, write_folder_path |-> None,
           upload_url |-> None, auth_username |-> None, auth_password |-> None]

InitLocals ==
    /\ temp_pdf_path = [r \in Reqs |-> 0]
    /\ read_tmp = [r \in Reqs |-> 0]
    /\ images = [r \in Reqs |-> 0]
    /\ created_pngs = [r \in Reqs |-> <<>>]
    /\ i = [r \in Reqs |-> 0]
    /\ ui = [r \in Reqs |-> 0]
    /\ di = [r \in Reqs |-> 0]
    /\ uploaded_count = [r \in Reqs |-> 0]
    /\ fut = [r \in Reqs |-> "none"]
    /\ exc = [r \in Reqs |-> "none"]
    /\ result = [r \in Reqs |-> NoResult]
    /\ log = [r \in Reqs |-> <<>>]
    /\ running = 0

\* One call arrives (request 1), with any tool name, argument mapping and
\* source document; the destination directory may or may not exist yet.
Init ==
    /\ \E n \in ToolNames, a \in ArgMaps, d \in DocKinds :
          /\ name = [r \in Reqs |-> IF r = 1 THEN n ELSE "other"]
          /\ arguments = [r \in Reqs |-> IF r = 1 THEN a ELSE NoArgs]
          /\ doc = [r \in Reqs |-> IF r = 1 THEN d ELSE -1]
    /\ pc = [r \in Reqs |-> IF r = 1 THEN "call" ELSE "idle"]
    /\ InitLocals
    /\ tmpFiles = {}
    /\ dirExists \in BOOLEAN
    /\ pngs = [k \in Pages |-> 0]

\* ---------------------------------------------------- handle_call_tool
\* line 116: if not arguments
MissingArguments(a) == a.empty

\* lines 116-126, up to the call of the pipeline
Dispatch(n, a) ==
    IF MissingArguments(a) THEN "MissingArguments"
    ELSE IF n = "pdf2png" \/ n = "pdf2png_upload" THEN "route"
    ELSE "UnknownTool"

\* the call raised before any try block: it ends at once
Raise(r, e) ==
    /\ pc' = [pc EXCEPT ![r] = "done"]
    /\ result' = [result EXCEPT ![r] = Error(e)]
    /\ running' = 0

HandleCallTool(r) ==
    /\ pc[r] = "call"
    /\ running = 0
    /\ IF Dispatch(name[r], arguments[r]) = "route"
       THEN /\ pc' = [pc EXCEPT ![r] = "validate"]
            /\ running' = r
            /\ UNCHANGED result
       ELSE Raise(r, Dispatch(name[r], arguments[r]))
    /\ UNCHANGED <<inputs, locals, fs, log>>

\* variant: upload_url is not among the fields tested
MissingFields_noUploadUrl(n, a) ==
    \/ ~Truthy(a.read_file_path)
    \/ ~Truthy(a.write_folder_path)

\* line 134 / line 183: the required fields of the tool, each tested with "not"
MissingFields(n, a) ==
    \/ ~Truthy(a.read_file_path)
    \/ ~Truthy(a.write_folder_path)
    \/ (n = "pdf2png_upload" /\ ~Truthy(a.upload_url))

\* lines 131-137 and 177-187
ValidateArgs(r) ==
    /\ pc[r] = "validate"
    /\ running = r
    /\ IF MissingFields(name[r], arguments[r])
       THEN /\ Raise(r, "MissingFields")
            /\ UNCHANGED <<temp_pdf_path, created_pngs>>
       ELSE /\ temp_pdf_path' = [temp_pdf_path EXCEPT ![r] = 0]
            /\ created_pngs' = [created_pngs EXCEPT ![r] = <<>>]
            /\ pc' = [pc EXCEPT ![r] = "resolve"]
            /\ UNCHANGED <<running, result>>
    /\ UNCHANGED <<inputs, read_tmp, images, i, ui, di, uploaded_count, fut, exc, fs, log>>

\* an exception raised inside the try block: control goes to the finally clause
Throw(r, e) ==
    /\ exc' = [exc EXCEPT ![r] = e]
    /\ pc' = [pc EXCEPT ![r] = "finally"]

\* ---------------------------------------------------- step 1: download
\* variant: the temporary file is opened under a name that may be in use
ResolveSource_nameInUse(r) ==
    /\ pc[r] = "resolve"
    /\ running = r
    /\ IF is_url(arguments[r].read_file_path.val)
       THEN \/ \E t \in TempNames :
                 /\ tmpFiles' = tmpFiles \cup {t}
                 /\ temp_pdf_path' = [temp_pdf_path EXCEPT ![r] = t]
                 /\ Logged(r, Entry("mktemp", t, TRUE))
                 /\ pc' = [pc EXCEPT ![r] = "downloading"]
                 /\ running' = 0
                 /\ UNCHANGED exc
            \/ /\ Throw(r, "TempFileError")
               /\ Logged(r, Entry("mktemp", 0, FALSE))
               /\ UNCHANGED <<tmpFiles, temp_pdf_path, running>>
       ELSE /\ pc' = [pc EXCEPT ![r] = "convert"]
            /\ UNCHANGED <<tmpFiles, temp_pdf_path, running, exc, log>>
    /\ UNCHANGED <<inputs, read_tmp, images, created_pngs, i, ui, di, uploaded_count, fut,
                   result, dirExists, pngs>>

\* lines 139-148 / 191-200: NamedTemporaryFile(delete=False) creates a file
\* under a name no existing file has, then the download is handed to an
\* executor thread and the coroutine awaits it
ResolveSource(r) ==
    /\ pc[r] = "resolve"
    /\ running = r
    /\ IF is_url(arguments[r].read_file_path.val)
       THEN \/ \E t \in TempNames \ tmpFiles :
                 /\ tmpFiles' = tmpFiles \cup {t}
                 /\ temp_pdf_path' = [temp_pdf_path EXCEPT ![r] = t]
                 /\ Logged(r, Entry("mktemp", t, TRUE))
                 /\ pc' = [pc EXCEPT ![r] = "downloading"]
                 /\ running' = 0
                 /\ UNCHANGED exc
            \/ /\ Throw(r, "TempFileError")
               /\ Logged(r, Entry("mktemp", 0, FALSE))
               /\ UNCHANGED <<tmpFiles, temp_pdf_path, running>>
       ELSE /\ pc' = [pc EXCEPT ![r] = "convert"]
            /\ UNCHANGED <<tmpFiles, temp_pdf_path, running, exc, log>>
    /\ UNCHANGED <<inputs, read_tmp, images, created_pngs, i, ui, di, uploaded_count, fut,
                   result, dirExists, pngs>>

\* download_file (lines 23-30) on the executor thread: urlopen and the copy
\* loop either complete or raise
DownloadFile(r) ==
    /\ pc[r] = "downloading"
    /\ \E ok \in BOOLEAN :
          /\ fut' = [fut EXCEPT ![r] = IF ok THEN "ok" ELSE "fail"]
          /\ Logged(r, Entry("download", temp_pdf_path[r], ok))
    /\ pc' = [pc EXCEPT ![r] = "downloaded"]
    /\ UNCHANGED <<inputs, running, temp_pdf_path, read_tmp, images, created_pngs, i, ui, di,
                   uploaded_count, exc, result, fs>>

\* variant: the outcome of the download is not looked at
DownloadResume_ignoreFailure(r) ==
    /\ pc[r] = "downloaded"
    /\ running = 0
    /\ running' = r
    /\ read_tmp' = [read_tmp EXCEPT ![r] = temp_pdf_path[r]]
    /\ pc' = [pc EXCEPT ![r] = "convert"]
    /\ fut' = [fut EXCEPT ![r] = "none"]
    /\ UNCHANGED <<inputs, temp_pdf_path, images, created_pngs, i, ui, di, uploaded_count,
                   exc, result, fs, log>>

\* the await of lines 143-149 / 195-201 returns or raises; the with block closes
DownloadResume(r) ==
    /\ pc[r] = "downloaded"
    /\ running = 0
    /\ running' = r
    /\ IF fut[r] = "ok"
       THEN /\ read_tmp' = [read_tmp EXCEPT ![r] = temp_pdf_path[r]]
            /\ pc' = [pc EXCEPT ![r] = "convert"]
            /\ UNCHANGED exc
       ELSE /\ Throw(r, "DownloadError")
            /\ UNCHANGED read_tmp
    /\ fut' = [fut EXCEPT ![r] = "none"]
    /\ UNCHANGED <<inputs, temp_pdf_path, images, created_pngs, i, ui, di, uploaded_count,
                   result, fs, log>>

\* ------------------------------------------- step 2: rasterize and write
\* line 151 / 204: images = convert_from_path(read_file_path); it raises when
\* the file is missing or is not a readable PDF
ConvertFromPath(r) ==
    /\ pc[r] = "convert"
    /\ running = r
    /\ Logged(r, Entry("rasterize", read_tmp[r], doc[r] >= 0 /\ (read_tmp[r] = 0 \/ read_tmp[r] \in tmpFiles)))
    /\ IF doc[r] >= 0 /\ (read_tmp[r] = 0 \/ read_tmp[r] \in tmpFiles)
       THEN /\ images' = [images EXCEPT ![r] = doc[r]]
            /\ pc' = [pc EXCEPT ![r] = "makedirs"]
            /\ UNCHANGED exc
       ELSE /\ Throw(r, "ConversionError")
            /\ UNCHANGED images
    /\ UNCHANGED <<inputs, running, temp_pdf_path, read_tmp, created_pngs, i, ui, di,
                   uploaded_count, fut, result, fs>>

\* line 152 / 205: os.makedirs(write_folder_path, exist_ok=True)
MakeDirs(r) ==
    /\ pc[r] = "makedirs"
    /\ running = r
    /\ \/ /\ dirExists' = TRUE
          /\ Logged(r, Entry("makedirs", 0, TRUE))
          /\ i' = [i EXCEPT ![r] = 0]
          /\ pc' = [pc EXCEPT ![r] = "write"]
          /\ UNCHANGED exc
       \/ /\ Throw(r, "MakeDirsError")
          /\ Logged(r, Entry("makedirs", 0, FALSE))
          /\ UNCHANGED <<dirExists, i>>
    /\ UNCHANGED <<inputs, running, temp_pdf_path, read_tmp, images, created_pngs, ui, di,
                   uploaded_count, fut, result, tmpFiles, pngs>>

\* variant: the file is named by the 0-based index
PageNumber_zeroBased(idx) == idx

\* line 156 / 208: f'page_{i+1}.png' for the index i of enumerate(images)
PageNumber(idx) == idx + 1

\* variant: a failed save is skipped and the loop goes on
SavePage_continue(r) ==
    /\ pc[r] = "write"
    /\ running = r
    /\ i[r] < images[r]
    /\ \/ /\ dirExists
          /\ pngs' = [pngs EXCEPT ![PageNumber(i[r])] = r]
          /\ created_pngs' = [created_pngs EXCEPT ![r] = Append(@, PageNumber(i[r]))]
          /\ Logged(r, Entry("write", PageNumber(i[r]), TRUE))
       \/ /\ Logged(r, Entry("write", PageNumber(i[r]), FALSE))
          /\ UNCHANGED <<pngs, created_pngs>>
    /\ i' = [i EXCEPT ![r] = @ + 1]
    /\ UNCHANGED <<inputs, pc, exc, running, temp_pdf_path, read_tmp, images, ui, di,
                   uploaded_count, fut, result, tmpFiles, dirExists>>

\* variant: the page is saved under the first name that no file has yet
SavePage_accumulate(r) ==
    /\ pc[r] = "write"
    /\ running = r
    /\ i[r] < images[r]
    /\ \/ /\ dirExists
          /\ \E k \in Pages :
                /\ pngs[k] = 0
                /\ \A j \in 1..(k - 1) : pngs[j] # 0
                /\ pngs' = [pngs EXCEPT ![k] = r]
                /\ created_pngs' = [created_pngs EXCEPT ![r] = Append(@, k)]
                /\ Logged(r, Entry("write", k, TRUE))
          /\ i' = [i EXCEPT ![r] = @ + 1]
          /\ UNCHANGED <<pc, exc>>
       \/ /\ Throw(r, "SaveError")
          /\ Logged(r, Entry("write", PageNumber(i[r]), FALSE))
          /\ UNCHANGED <<pngs, created_pngs, i>>
    /\ UNCHANGED <<inputs, running, temp_pdf_path, read_tmp, images, ui, di, uploaded_count,
                   fut, result, tmpFiles, dirExists>>

\* lines 155-158 / 207-210, one iteration: image.save then append
SavePage(r) ==
    /\ pc[r] = "write"
    /\ running = r
    /\ i[r] < images[r]
    /\ \/ /\ dirExists
          /\ pngs' = [pngs EXCEPT ![PageNumber(i[r])] = r]
          /\ created_pngs' = [created_pngs EXCEPT ![r] = Append(@, PageNumber(i[r]))]
          /\ Logged(r, Entry("write", PageNumber(i[r]), TRUE))
          /\ i' = [i EXCEPT ![r] = @ + 1]
          /\ UNCHANGED <<pc, exc>>
       \/ /\ Throw(r, "SaveError")
          /\ Logged(r, Entry("write", PageNumber(i[r]), FALSE))
          /\ UNCHANGED <<pngs, created_pngs, i>>
    /\ UNCHANGED <<inputs, running, temp_pdf_path, read_tmp, images, ui, di, uploaded_count,
                   fut, result, tmpFiles, dirExists>>

\* _convert_pdf_only lines 160-165: the loop is over, the summary is returned
ReturnSummaryOnly(r) ==
    /\ pc[r] = "write"
    /\ running = r
    /\ name[r] = "pdf2png"
    /\ i[r] = images[r]
    /\ result' = [result EXCEPT ![r] = SummaryOnly(Len(created_pngs[r]))]
    /\ pc' = [pc EXCEPT ![r] = "finally"]
    /\ UNCHANGED <<inputs, running, locals, fs, log>>

\* line 212: if not created_pngs
NoPagesGenerated(created) == created = <<>>

\* _convert_and_upload_pdf lines 212-217: the loop is over
CheckPages(r) ==
    /\ pc[r] = "write"
    /\ running = r
    /\ name[r] = "pdf2png_upload"
    /\ i[r] = images[r]
    /\ IF NoPagesGenerated(created_pngs[r])
       THEN /\ Throw(r, "NoPages")
            /\ UNCHANGED <<uploaded_count, ui>>
       ELSE /\ uploaded_count' = [uploaded_count EXCEPT ![r] = 0]
            /\ ui' = [ui EXCEPT ![r] = 1]
            /\ pc' = [pc EXCEPT ![r] = "upload"]
            /\ UNCHANGED exc
    /\ UNCHANGED <<inputs, running, temp_pdf_path, read_tmp, images, created_pngs, i, di,
                   fut, result, fs, log>>

\* ---------------------------------------------------- step 3: upload
\* variant: the loop stops one file early
MoreToUpload_offByOne(idx, created) == idx < Len(created)

\* line 219: for png_path in created_pngs
MoreToUpload(idx, created) == idx <= Len(created)

\* lines 219-228: the next png_path is handed to an executor thread and the
\* coroutine awaits it; after the last one the loop is left
SubmitUpload(r) ==
    /\ pc[r] = "upload"
    /\ running = r
    /\ IF MoreToUpload(ui[r], created_pngs[r])
       THEN /\ pc' = [pc EXCEPT ![r] = "posting"]
            /\ running' = 0
            /\ UNCHANGED di
       ELSE /\ pc' = [pc EXCEPT ![r] = "unlink"]
            /\ di' = [di EXCEPT ![r] = 1]
            /\ UNCHANGED running
    /\ UNCHANGED <<inputs, temp_pdf_path, read_tmp, images, created_pngs, i, ui,
                   uploaded_count, fut, exc, result, fs, log>>

\* post_file (lines 34-75) on the executor thread: it reads the file, builds
\* the multipart body and the headers, and POSTs; opening the file fails when
\* it is gone, and the POST itself succeeds or raises
PostFile(r) ==
    /\ pc[r] = "posting"
    /\ LET k == created_pngs[r][ui[r]]
       IN IF pngs[k] = 0
          THEN /\ fut' = [fut EXCEPT ![r] = "fail"]
               /\ Logged(r, Entry("open", k, FALSE))
          ELSE \E ok \in BOOLEAN :
                  /\ fut' = [fut EXCEPT ![r] = IF ok THEN "ok" ELSE "fail"]
                  /\ Logged(r, [op |-> "post", k |-> k, ok |-> ok,
                                hdr |-> AuthHeader(arguments[r].auth_username,
                                                   arguments[r].auth_password),
                                owner |-> pngs[k]])
    /\ pc' = [pc EXCEPT ![r] = "posted"]
    /\ UNCHANGED <<inputs, running, temp_pdf_path, read_tmp, images, created_pngs, i, ui, di,
                   uploaded_count, exc, result, fs>>

\* variant: the count grows after every attempt
CountAfterUpload_always(c, outcome) == c + 1

\* lines 229-232: the count grows only when post_file returned
CountAfterUpload(c, outcome) == IF outcome = "ok" THEN c + 1 ELSE c

\* variant: a failed upload is not caught
UploadResume_escalate(r) ==
    /\ pc[r] = "posted"
    /\ running = 0
    /\ running' = r
    /\ IF fut[r] = "ok"
       THEN /\ uploaded_count' = [uploaded_count EXCEPT ![r] = @ + 1]
            /\ ui' = [ui EXCEPT ![r] = @ + 1]
            /\ pc' = [pc EXCEPT ![r] = "upload"]
            /\ UNCHANGED exc
       ELSE /\ Throw(r, "UploadError")
            /\ UNCHANGED <<uploaded_count, ui>>
    /\ fut' = [fut EXCEPT ![r] = "none"]
    /\ UNCHANGED <<inputs, temp_pdf_path, read_tmp, images, created_pngs, i, di,
                   result, fs, log>>

\* variant: each PNG is deleted as soon as its own upload attempt is over
UploadResume_deleteEarly(r) ==
    /\ pc[r] = "posted"
    /\ running = 0
    /\ running' = r
    /\ uploaded_count' = [uploaded_count EXCEPT ![r] = CountAfterUpload(@, fut[r])]
    /\ pngs' = [pngs EXCEPT ![created_pngs[r][ui[r]]] = 0]
    /\ Logged(r, Entry("unlink", created_pngs[r][ui[r]], TRUE))
    /\ ui' = [ui EXCEPT ![r] = @ + 1]
    /\ fut' = [fut EXCEPT ![r] = "none"]
    /\ pc' = [pc EXCEPT ![r] = "upload"]
    /\ UNCHANGED <<inputs, temp_pdf_path, read_tmp, images, created_pngs, i, di, exc,
                   result, tmpFiles, dirExists>>

\* lines 229-232: the await returns or raises; "except Exception" swallows the
\* failure and the loop goes on with the next file
UploadResume(r) ==
    /\ pc[r] = "posted"
    /\ running = 0
    /\ running' = r
    /\ uploaded_count' = [uploaded_count EXCEPT ![r] = CountAfterUpload(@, fut[r])]
    /\ ui' = [ui EXCEPT ![r] = @ + 1]
    /\ fut' = [fut EXCEPT ![r] = "none"]
    /\ pc' = [pc EXCEPT ![r] = "upload"]
    /\ UNCHANGED <<inputs, temp_pdf_path, read_tmp, images, created_pngs, i, di, exc,
                   result, fs, log>>

\* ---------------------------------------------------- step 4: delete
\* variant: a failed os.unlink of a PNG is not caught
UnlinkPng_raise(r) ==
    /\ pc[r] = "unlink"
    /\ running = r
    /\ di[r] <= Len(created_pngs[r])
    /\ LET k == created_pngs[r][di[r]]
       IN \/ /\ pngs[k] # 0
             /\ pngs' = [pngs EXCEPT ![k] = 0]
             /\ Logged(r, Entry("unlink", k, TRUE))
             /\ UNCHANGED <<pc, exc>>
          \/ /\ Logged(r, Entry("unlink", k, FALSE))
             /\ Throw(r, "UnlinkError")
             /\ UNCHANGED pngs
    /\ di' = [di EXCEPT ![r] = @ + 1]
    /\ UNCHANGED <<inputs, running, temp_pdf_path, read_tmp, images, created_pngs, i, ui,
                   uploaded_count, fut, result, tmpFiles, dirExists>>

\* lines 235-239, one iteration: os.unlink(png_path); a failure is printed
\* and the loop goes on
UnlinkPng(r) ==
    /\ pc[r] = "unlink"
    /\ running = r
    /\ di[r] <= Len(created_pngs[r])
    /\ LET k == created_pngs[r][di[r]]
       IN \/ /\ pngs[k] # 0
             /\ pngs' = [pngs EXCEPT ![k] = 0]
             /\ Logged(r, Entry("unlink", k, TRUE))
          \/ /\ Logged(r, Entry("unlink", k, FALSE))
             /\ UNCHANGED pngs
    /\ di' = [di EXCEPT ![r] = @ + 1]
    /\ UNCHANGED <<inputs, pc, running, temp_pdf_path, read_tmp, images, created_pngs, i, ui,
                   uploaded_count, fut, exc, result, tmpFiles, dirExists>>

\* line 241: auth_str is chosen by auth_username alone
AuthStr(username) == IF Truthy(username) THEN "with Basic Auth" ELSE "without authentication"

\* variant: the summary gives the number of files as the number uploaded
ReturnSummaryUpload_reportsAll(r) ==
    /\ pc[r] = "unlink"
    /\ running = r
    /\ di[r] > Len(created_pngs[r])
    /\ result' = [result EXCEPT ![r] = SummaryUpload(Len(created_pngs[r]), Len(created_pngs[r]),
                                                     AuthStr(arguments[r].auth_username))]
    /\ pc' = [pc EXCEPT ![r] = "finally"]
    /\ UNCHANGED <<inputs, running, locals, fs, log>>

\* lines 241-247: the summary is returned
ReturnSummaryUpload(r) ==
    /\ pc[r] = "unlink"
    /\ running = r
    /\ di[r] > Len(created_pngs[r])
    /\ result' = [result EXCEPT ![r] = SummaryUpload(Len(created_pngs[r]), uploaded_count[r],
                                                     AuthStr(arguments[r].auth_username))]
    /\ pc' = [pc EXCEPT ![r] = "finally"]
    /\ UNCHANGED <<inputs, running, locals, fs, log>>

\* ---------------------------------------------------- finally
\* variant: the existence test is inverted
TempCleanupNeeded_inverted(t, files) == t # 0 /\ t \notin files

\* line 168 / 251: if temp_pdf_path and os.path.exists(temp_pdf_path)
TempCleanupNeeded(t, files) == t # 0 /\ t \in files

\* what the call gives its caller once the finally clause is done: the
\* exception that was propagating, else the value of the return statement
Outcome(e, res) == IF e # "none" THEN Error(e) ELSE res

\* lines 167-172 / 249-255: os.unlink of the temporary file, a failure of
\* which is printed and swallowed; then the call returns or re-raises
Finally(r) ==
    /\ pc[r] = "finally"
    /\ running = r
    /\ IF TempCleanupNeeded(temp_pdf_path[r], tmpFiles)
       THEN \/ /\ tmpFiles' = tmpFiles \ {temp_pdf_path[r]}
               /\ Logged(r, Entry("unlink_tmp", temp_pdf_path[r], TRUE))
            \/ /\ Logged(r, Entry("unlink_tmp", temp_pdf_path[r], FALSE))
               /\ UNCHANGED tmpFiles
       ELSE UNCHANGED <<tmpFiles, log>>
    /\ result' = [result EXCEPT ![r] = Outcome(exc[r], @)]
    /\ pc' = [pc EXCEPT ![r] = "done"]
    /\ running' = 0
    /\ UNCHANGED <<inputs, locals, dirExists, pngs>>

\* ---------------------------------------------------- specification
Next ==
    \E r \in Reqs :
        \/ HandleCallTool(r)
        \/ ValidateArgs(r)
        \/ ResolveSource(r)
        \/ DownloadFile(r)
        \/ DownloadResume(r)
        \/ ConvertFromPath(r)
        \/ MakeDirs(r)
        \/ SavePage(r)
        \/ ReturnSummaryOnly(r)
        \/ CheckPages(r)
        \/ SubmitUpload(r)
        \/ PostFile(r)
        \/ UploadResume(r)
        \/ UnlinkPng(r)
        \/ ReturnSummaryUpload(r)
        \/ Finally(r)

Spec == Init /\ [][Next]_vars

TypeOK ==
    /\ pc \in [Reqs -> {"idle", "call", "validate", "resolve", "downloading", "downloaded",
                        "convert", "makedirs", "write", "upload", "posting", "posted",
                        "unlink", "finally", "done"}]
    /\ running \in Reqs \cup {0}
    /\ temp_pdf_path \in [Reqs -> TempNames \cup {0}]
    /\ tmpFiles \subseteq TempNames
    /\ pngs \in [Pages -> Reqs \cup {0}]
    /\ \A r \in Reqs : Len(created_pngs[r]) <= MaxPages /\ uploaded_count[r] \in 0..MaxPages

\* ================================================================ properties
\* the call of request r has returned or raised
Done(r) == pc[r] = "done"

\* the call names a tool and carries every field the tool requires (section 6
\* of the specification), stated on the inputs alone
PassesValidation(r) ==
    /\ ~arguments[r].empty
    /\ name[r] \in {"pdf2png", "pdf2png_upload"}
    /\ Truthy(arguments[r].read_file_path)
    /\ Truthy(arguments[r].write_folder_path)
    /\ name[r] = "pdf2png_upload" => Truthy(arguments[r].upload_url)

UrlSource(r) ==
    /\ PassesValidation(r)
    /\ \/ HasPrefix(arguments[r].read_file_path.val, <<"h", "t", "t", "p", ":", "/", "/">>)
       \/ HasPrefix(arguments[r].read_file_path.val, <<"h", "t", "t", "p", "s", ":", "/", "/">>)

LocalSource(r) == PassesValidation(r) /\ ~UrlSource(r)

\* the positions of request r's log holding operation op
At(r, op) == {j \in DOMAIN log[r] : log[r][j].op = op}
AtOk(r, op) == {j \in At(r, op) : log[r][j].ok}
AtFailed(r, op) == {j \in At(r, op) : ~log[r][j].ok}

\* the subsequence of request r's log holding operation op
RECURSIVE Filter(_, _)
Filter(s, op) ==
    IF s = <<>> THEN <<>>
    ELSE IF s[1].op = op THEN <<s[1]>> \o Filter(Tail(s), op)
    ELSE Filter(Tail(s), op)

Ks(s) == [j \in DOMAIN s |-> s[j].k]
OneTo(n) == [j \in 1..n |-> j]

\* ---------------------------------------------------------------- C1
\* C1 as stated: for a call with a URL source, exactly one temporary
\* download file is created, and once the call has returned or raised that
\* file does not exist.
C1_TempFileGoneAtReturn ==
    \A r \in Reqs :
        (Done(r) /\ UrlSource(r)) =>
            /\ Cardinality(AtOk(r, "mktemp")) = 1
            /\ temp_pdf_path[r] \notin tmpFiles

\* C1 amended: for a call with a URL source, creation of a temporary file is
\* tried exactly once and creates at most one file; once the call has returned
\* or raised, the file that was created has had exactly one deletion attempted,
\* as the last operation of the call, and it does not exist unless that
\* deletion failed.
C1_TempFileGoneUnlessUnlinkFailed ==
    \A r \in Reqs :
        /\ Cardinality(AtOk(r, "mktemp")) <= 1
        /\ (\A t \in tmpFiles : \E q \in Reqs : temp_pdf_path[q] = t)
        /\ (Done(r) /\ UrlSource(r)) =>
              /\ Cardinality(At(r, "mktemp")) = 1
              /\ AtOk(r, "mktemp") # {} =>
                    /\ temp_pdf_path[r] # 0
                    /\ Cardinality(At(r, "unlink_tmp")) = 1
                    /\ log[r][Len(log[r])].op = "unlink_tmp"
                    /\ log[r][Len(log[r])].k = temp_pdf_path[r]
                    /\ temp_pdf_path[r] \in tmpFiles <=> ~log[r][Len(log[r])].ok
              /\ AtOk(r, "mktemp") = {} => temp_pdf_path[r] = 0 /\ tmpFiles = {}

\* a URL call has ended in an error with its temporary file created and removed
C1_Witness ==
    \E r \in Reqs :
        /\ Done(r) /\ UrlSource(r)
        /\ result[r].kind = "error"
        /\ temp_pdf_path[r] # 0 /\ temp_pdf_path[r] \notin tmpFiles

\* ---------------------------------------------------------------- C2
\* the upload call of request r rasterized N >= 1 pages and wrote all of them
AllPagesWritten(r) ==
    /\ PassesValidation(r) /\ name[r] = "pdf2png_upload"
    /\ AtOk(r, "rasterize") # {}
    /\ doc[r] >= 1
    /\ Cardinality(AtOk(r, "write")) = doc[r]

\* C2 as stated: when pdf2png_upload rasterized N >= 1 pages and wrote all N,
\* upload is attempted exactly N times, once per page file in page order, and
\* once the call has returned none of the N page files exists in the
\* destination directory.
C2_PagesGoneAtReturn ==
    \A r \in Reqs :
        (Done(r) /\ AllPagesWritten(r)) =>
            /\ Ks(Filter(log[r], "post")) = OneTo(doc[r])
            /\ \A k \in 1..doc[r] : pngs[k] = 0

\* C2 amended: when pdf2png_upload rasterized N >= 1 pages and wrote all N,
\* upload is attempted exactly N times, once per page file in page order and
\* never two at a time; once the call has returned, the deletion of each of
\* the N page files has been attempted exactly once, in page order and after
\* the last upload attempt, and a page file exists only if its deletion failed.
C2_PagesGoneUnlessUnlinkFailed ==
    \A r \in Reqs :
        /\ (pc[r] = "posting") => Len(Filter(log[r], "post")) = ui[r] - 1
        /\ (pc[r] = "posted") => Len(Filter(log[r], "post")) = ui[r]
        /\ (Done(r) /\ AllPagesWritten(r)) =>
              /\ Ks(Filter(log[r], "post")) = OneTo(doc[r])
              /\ Ks(Filter(log[r], "unlink")) = OneTo(doc[r])
              /\ \A u \in At(r, "unlink"), q \in At(r, "post") : q < u
              /\ \A u \in At(r, "unlink") : pngs[log[r][u].k] # 0 <=> ~log[r][u].ok

\* a two-page upload call has returned with one upload failed and one
\* succeeded, and both page files are gone
C2_Witness ==
    \E r \in Reqs :
        /\ Done(r) /\ AllPagesWritten(r) /\ doc[r] = 2
        /\ Cardinality(AtOk(r, "post")) = 1
        /\ Cardinality(AtFailed(r, "post")) = 1
        /\ \A k \in 1..2 : pngs[k] = 0

\* ---------------------------------------------------------------- C3
\* C3: when pdf2png on a local PDF that rasterizes to P pages returns its
\* summary, it has written exactly the files page_1.png .. page_P.png, in that
\* order, they are in the destination directory, and the summary states P;
\* at no time has it written anything but a prefix of page_1 .. page_P.
C3_LocalConvertWritesPages ==
    \A r \in Reqs :
        (LocalSource(r) /\ name[r] = "pdf2png") =>
            /\ \E n \in 0..MaxPages :
                  /\ Ks(Filter(log[r], "write")) \in {OneTo(n), OneTo(n + 1)}
                  /\ created_pngs[r] = OneTo(n)
                  /\ n <= IF doc[r] >= 0 THEN doc[r] ELSE 0
            /\ (Done(r) /\ result[r].kind = "ok") =>
                  /\ AtOk(r, "rasterize") # {}
                  /\ AtFailed(r, "write") = {}
                  /\ Ks(Filter(log[r], "write")) = OneTo(doc[r])
                  /\ dirExists
                  /\ \A k \in Pages : pngs[k] = r <=> k <= doc[r]
                  /\ result[r] = SummaryOnly(doc[r])

\* pdf2png on a local two-page PDF has returned its summary
C3_Witness ==
    \E r \in Reqs :
        /\ Done(r) /\ LocalSource(r) /\ name[r] = "pdf2png"
        /\ doc[r] = 2
        /\ result[r].kind = "ok"

\* ---------------------------------------------------------------- C4
\* C4: in pdf2png_upload a failed upload does not abort the request: once a
\* call in which an upload failed has returned, every page file has had its
\* upload attempted, the deletion of every page file and the cleanup of the
\* temporary file have been attempted, the call has returned the success
\* summary, and the uploaded count M of the summary is the number of upload
\* attempts that succeeded, 0 <= M <= N.
C4_UploadFailureNotEscalated ==
    \A r \in Reqs :
        (Done(r) /\ name[r] = "pdf2png_upload" /\ AtFailed(r, "post") # {}) =>
            /\ Len(created_pngs[r]) = doc[r]
            /\ Ks(Filter(log[r], "post")) = created_pngs[r]
            /\ Ks(Filter(log[r], "unlink")) = created_pngs[r]
            /\ temp_pdf_path[r] # 0 => At(r, "unlink_tmp") # {}
            /\ result[r].kind = "ok"
            /\ result[r].pages = doc[r]
            /\ result[r].uploaded = Cardinality(AtOk(r, "post"))
            /\ result[r].uploaded \in 0..doc[r]

\* a two-page upload call whose first upload failed and whose second
\* succeeded has returned
C4_Witness ==
    \E r \in Reqs :
        /\ Done(r) /\ name[r] = "pdf2png_upload"
        /\ Len(Filter(log[r], "post")) = 2
        /\ ~Filter(log[r], "post")[1].ok
        /\ Filter(log[r], "post")[2].ok
        /\ result[r].uploaded = 1

\* ---------------------------------------------------------------- C5
ValidationErrors == {"MissingArguments", "UnknownTool", "MissingFields"}

\* C5: a call that fails input validation (no argument mapping, a required
\* field missing or empty, an unknown tool name) never gets past validation,
\* performs no filesystem or network operation and leaves the filesystem as it
\* was, and ends with a validation error.
C5_InvalidCallHasNoEffect ==
    /\ [](\A r \in Reqs :
            (pc[r] # "idle" /\ ~PassesValidation(r)) =>
                /\ pc[r] \in {"call", "validate", "done"}
                /\ log[r] = <<>>
                /\ temp_pdf_path[r] = 0
                /\ Done(r) => result[r].kind = "error" /\ result[r].err \in ValidationErrors)
    /\ [][(\E r \in Reqs : pc[r] # pc'[r] /\ ~PassesValidation(r)) => UNCHANGED fs]_vars
    /\ [](\A r \in Reqs :
            (Done(r) /\ result[r].kind = "error" /\ result[r].err \in ValidationErrors) =>
                ~PassesValidation(r))

\* an upload call without upload_url has been rejected
C5_Witness ==
    \E r \in Reqs :
        /\ Done(r) /\ name[r] = "pdf2png_upload"
        /\ ~arguments[r].empty
        /\ Truthy(arguments[r].read_file_path) /\ Truthy(arguments[r].write_folder_path)
        /\ ~Truthy(arguments[r].upload_url)
        /\ result[r] = Error("MissingFields")

\* ---------------------------------------------------------------- C6
\* the rasterizer returned an empty list of pages to request r
ZeroPages(r) == PassesValidation(r) /\ AtOk(r, "rasterize") # {} /\ doc[r] = 0

\* C6 as stated: when the rasterizer yields zero pages, pdf2png_upload ends
\* with a conversion error, uploads nothing, and after the rasterizer has
\* returned writes nothing to the filesystem, not even the destination
\* directory.
C6_ZeroPagesNoWrites ==
    \A r \in Reqs :
        (Done(r) /\ name[r] = "pdf2png_upload" /\ ZeroPages(r)) =>
            /\ result[r].kind = "error"
            /\ At(r, "post") = {}
            /\ At(r, "write") = {}
            /\ At(r, "makedirs") = {}

\* ---------------------------------------------------------------- C7
B64Index(c) == CHOOSE n \in 0..63 : B64Alphabet[n] = c

\* the bytes a base64 text stands for (RFC 4648), four characters at a time
RECURSIVE B64Decode(_)
B64Decode(chars) ==
    IF Len(chars) < 4 THEN <<>>
    ELSE IF chars[3] = B64Pad THEN
        <<(B64Index(chars[1]) * 4 + B64Index(chars[2]) \div 16) % 256>>
    ELSE IF chars[4] = B64Pad THEN
        <<(B64Index(chars[1]) * 4 + B64Index(chars[2]) \div 16) % 256,
          (B64Index(chars[2]) * 16 + B64Index(chars[3]) \div 4) % 256>>
    ELSE
        <<(B64Index(chars[1]) * 4 + B64Index(chars[2]) \div 16) % 256,
          (B64Index(chars[2]) * 16 + B64Index(chars[3]) \div 4) % 256,
          (B64Index(chars[3]) * 64 + B64Index(chars[4])) % 256>>
        \o B64Decode(SubSeq(chars, 5, Len(chars)))

B64Chars == {B64Alphabet[n] : n \in 0..63} \cup {B64Pad}

\* C7: every upload attempt of pdf2png_upload carries an Authorization header
\* exactly when auth_username and auth_password are both supplied and
\* non-empty; the header is then "Basic " followed by the base64 text of
\* username ":" password.
C7_BasicAuthHeader ==
    \A r \in Reqs : \A j \in At(r, "post") :
        LET h == log[r][j].hdr
            u == arguments[r].auth_username
            p == arguments[r].auth_password
            text == SubSeq(h.value, Len(BasicPrefix) + 1, Len(h.value))
        IN /\ h.present <=> (u.some /\ u.val # <<>> /\ p.some /\ p.val # <<>>)
           /\ h.present =>
                 /\ SubSeq(h.value, 1, Len(BasicPrefix)) = BasicPrefix
                 /\ Len(text) % 4 = 0
                 /\ \A n \in DOMAIN text : text[n] \in B64Chars
                 /\ B64Decode(text) = u.val \o <<Colon>> \o p.val
           /\ ~h.present => h.value = <<>>

\* an upload was attempted with a two-byte username and a two-byte password
C7_Witness ==
    \E r \in Reqs : \E j \in At(r, "post") :
        /\ log[r][j].hdr.present
        /\ Len(arguments[r].auth_username.val) = 2
        /\ Len(arguments[r].auth_password.val) = 2

\* ---------------------------------------------------------------- C8
\* creating the destination directory or writing a page failed in request r
PersistenceFailed(r) ==
    PassesValidation(r) /\ (AtFailed(r, "makedirs") # {} \/ AtFailed(r, "write") # {})

\* the number of pages request r wrote before the failure
WrittenBefore(r) == Cardinality(AtOk(r, "write"))

\* C8 as stated: in either tool, when creating the destination directory or
\* writing page k fails, the call ends with an error after the temporary
\* download file (if any) has been deleted, the pages 1..k-1 are left in
\* place, and no upload is attempted.
C8_PersistenceErrorTempDeleted ==
    \A r \in Reqs :
        (Done(r) /\ PersistenceFailed(r)) =>
            /\ result[r].kind = "error"
            /\ tmpFiles = {}
            /\ \A k \in 1..WrittenBefore(r) : pngs[k] = r
            /\ At(r, "post") = {}

\* C8 amended: in either tool, when creating the destination directory or
\* writing page k fails, the call ends with that error after the deletion of
\* the temporary download file (if any) has been attempted, which leaves the
\* file only if the deletion failed; nothing is written after the failure,
\* the pages 1..k-1 are left in place, none of them has a deletion attempted,
\* and no upload is attempted.
C8_PersistenceErrorLeavesPages ==
    \A r \in Reqs :
        /\ PersistenceFailed(r) =>
              /\ pc[r] \in {"finally", "done"}
              /\ exc[r] \in {"MakeDirsError", "SaveError"}
              /\ Cardinality(AtFailed(r, "makedirs") \cup AtFailed(r, "write")) = 1
              /\ AtFailed(r, "makedirs") # {} => At(r, "write") = {}
              /\ \A j \in AtFailed(r, "write") :
                    /\ log[r][j].k = WrittenBefore(r) + 1
                    /\ \A w \in At(r, "write") : w <= j
              /\ \A k \in 1..WrittenBefore(r) : pngs[k] = r
              /\ At(r, "post") = {} /\ At(r, "unlink") = {}
        /\ (Done(r) /\ PersistenceFailed(r)) =>
              /\ result[r] = Error(exc[r])
              /\ temp_pdf_path[r] # 0 =>
                    /\ log[r][Len(log[r])].op = "unlink_tmp"
                    /\ temp_pdf_path[r] \in tmpFiles <=> ~log[r][Len(log[r])].ok
              /\ temp_pdf_path[r] = 0 => tmpFiles = {}

\* an upload call with a URL source has failed writing page 2, with page 1
\* left in place and the temporary file removed
C8_Witness ==
    \E r \in Reqs :
        /\ Done(r) /\ PersistenceFailed(r) /\ name[r] = "pdf2png_upload"
        /\ temp_pdf_path[r] # 0 /\ tmpFiles = {}
        /\ WrittenBefore(r) = 1 /\ pngs[1] = r
        /\ result[r] = Error("SaveError")

\* ---------------------------------------------------------------- C9
\* C9 as stated: in either tool, when the rasterizer yields zero pages the
\* call ends with a conversion error and never returns a success summary.
C9_ZeroPagesIsError ==
    \A r \in Reqs :
        (Done(r) /\ ZeroPages(r) /\ AtFailed(r, "makedirs") = {}) =>
            /\ result[r].kind = "error"
            /\ result[r].err = "NoPages"

\* ---------------------------------------------------------------- C10
DeletionFailed(r) == AtFailed(r, "unlink") # {} \/ AtFailed(r, "unlink_tmp") # {}

\* the error of request r that is not a deletion error, if any
EarlierError(r) ==
    IF AtFailed(r, "mktemp") # {} THEN "TempFileError"
    ELSE IF AtFailed(r, "download") # {} THEN "DownloadError"
    ELSE IF AtFailed(r, "rasterize") # {} THEN "ConversionError"
    ELSE IF AtFailed(r, "makedirs") # {} THEN "MakeDirsError"
    ELSE IF AtFailed(r, "write") # {} THEN "SaveError"
    ELSE IF name[r] = "pdf2png_upload" /\ doc[r] = 0 THEN "NoPages"
    ELSE "none"

\* C10: a failed deletion of the temporary file or of a local PNG does not
\* change what the call reports: a call that otherwise succeeded returns its
\* summary with the counts of the pages written and uploaded, a call that
\* failed earlier raises that earlier error, and after a failed deletion of a
\* PNG the deletion of every remaining PNG is still attempted.
C10_DeletionFailureNotReported ==
    \A r \in Reqs :
        (Done(r) /\ PassesValidation(r) /\ DeletionFailed(r)) =>
            /\ EarlierError(r) # "none" => result[r] = Error(EarlierError(r))
            /\ EarlierError(r) = "none" =>
                  /\ result[r].kind = "ok"
                  /\ result[r].pages = Cardinality(AtOk(r, "write"))
                  /\ result[r].pages = doc[r]
                  /\ name[r] = "pdf2png_upload" =>
                        result[r].uploaded = Cardinality(AtOk(r, "post"))
            /\ AtFailed(r, "unlink") # {} => Ks(Filter(log[r], "unlink")) = created_pngs[r]

\* an upload call has returned its summary although the deletion of its
\* first PNG and of its temporary file failed
C10_Witness ==
    \E r \in Reqs :
        /\ Done(r) /\ result[r].kind = "ok"
        /\ Len(Filter(log[r], "unlink")) = 2
        /\ ~Filter(log[r], "unlink")[1].ok
        /\ Filter(log[r], "unlink")[2].ok
        /\ AtFailed(r, "unlink_tmp") # {}

\* ================================================ calls one after the other
\* the argument mappings of well-formed calls without credentials
PlainArgs ==
    { a \in ArgMaps : /\ ~a.empty
                      /\ Truthy(a.read_file_path) /\ Truthy(a.write_folder_path)
                      /\ Truthy(a.upload_url)
                      /\ a.auth_username = None /\ a.auth_password = None }

\* The same call is going to be made twice: the requests have the same tool
\* name, arguments and source document; the destination directory holds no
\* page file.
InitSeq ==
    /\ \E n \in {"pdf2png", "pdf2png_upload"}, a \in PlainArgs, d \in DocKinds :
          /\ name = [r \in Reqs |-> n]
          /\ arguments = [r \in Reqs |-> a]
          /\ doc = [r \in Reqs |-> d]
    /\ pc = [r \in Reqs |-> IF r = 1 THEN "call" ELSE "idle"]
    /\ InitLocals
    /\ tmpFiles = {}
    /\ dirExists \in BOOLEAN
    /\ pngs = [k \in Pages |-> 0]

\* the client makes its second call once the first has returned or raised
IssueNext(r) ==
    /\ pc[r] = "idle"
    /\ r = 2
    /\ pc[r - 1] = "done"
    /\ pc' = [pc EXCEPT ![r] = "call"]
    /\ UNCHANGED <<inputs, running, locals, result, fs, log>>

NextSeq == Next \/ \E r \in Reqs : IssueNext(r)

SpecSeq == InitSeq /\ [][NextSeq]_vars

\* ---------------------------------------------------------------- C11
\* the page files in the destination directory
Files == {k \in Pages : pngs[k] # 0}

\* C11: when pdf2png is called again on the same source and the same
\* destination directory, which was empty before the first call, every call
\* that returns its summary leaves exactly page_1.png .. page_P.png, and once
\* the first call has returned its summary no later call adds or removes a
\* file: it only overwrites.
C11_ConvertTwiceSameFiles ==
    /\ [](\A r \in Reqs :
            (name[r] = "pdf2png" /\ Done(r) /\ result[r].kind = "ok") =>
                Files = 1..doc[r])
    /\ [][(name[1] = "pdf2png" /\ Done(1) /\ result[1].kind = "ok") => Files' = Files]_vars

\* the second call on a two-page document has returned its summary after
\* overwriting both files of the first
C11_Witness ==
    /\ name[1] = "pdf2png" /\ name[2] = "pdf2png"
    /\ Done(1) /\ result[1].kind = "ok"
    /\ Done(2) /\ result[2].kind = "ok"
    /\ doc[2] = 2
    /\ pngs[1] = 2 /\ pngs[2] = 2

\* ---------------------------------------------------------------- C12
\* C12 as stated: the summary of pdf2png_upload says "with Basic Auth" exactly
\* when the upload attempts carried an Authorization header, and "without
\* authentication" exactly when they carried none.
C12_SummaryMatchesHeader ==
    \A r \in Reqs :
        (Done(r) /\ name[r] = "pdf2png_upload" /\ result[r].kind = "ok") =>
            /\ result[r].auth \in {"with Basic Auth", "without authentication"}
            /\ result[r].auth = "with Basic Auth" <=>
                  \A j \in At(r, "post") : log[r][j].hdr.present
            /\ result[r].auth = "without authentication" <=>
                  \A j \in At(r, "post") : ~log[r][j].hdr.present

\* ---------------------------------------------------------------- C13
\* the stage an operation belongs to
Rank(op) ==
    CASE op = "mktemp" -> 1
      [] op = "download" -> 2
      [] op = "rasterize" -> 3
      [] op = "makedirs" -> 4
      [] op = "write" -> 5
      [] op \in {"post", "open"} -> 6
      [] op = "unlink" -> 7
      [] op = "unlink_tmp" -> 8

\* C13: within one request the stages run in order and never overlap: the
\* download is over before the rasterizer runs, every page is written before
\* the first upload attempt, upload attempt n+1 starts only when attempt n is
\* over, no local PNG is deleted before the last upload attempt is over, and
\* the temporary file is deleted after all of these; while a download or an
\* upload is running on its thread the request does nothing else.
C13_StagesInOrder ==
    \A r \in Reqs :
        /\ \A a, b \in DOMAIN log[r] :
              a < b =>
                 /\ Rank(log[r][a].op) <= Rank(log[r][b].op)
                 /\ Rank(log[r][a].op) = Rank(log[r][b].op) => log[r][a].k < log[r][b].k
        /\ pc[r] \in {"downloading", "downloaded"} =>
              /\ running # r
              /\ \A a \in DOMAIN log[r] : Rank(log[r][a].op) <= 2
              /\ pc[r] = "downloading" <=> At(r, "download") = {}
        /\ pc[r] \in {"posting", "posted"} =>
              /\ running # r
              /\ Cardinality(AtOk(r, "write")) = images[r]
              /\ Len(created_pngs[r]) = images[r]
              /\ At(r, "unlink") = {} /\ At(r, "unlink_tmp") = {}
              /\ Cardinality(At(r, "post") \cup At(r, "open")) =
                    IF pc[r] = "posting" THEN ui[r] - 1 ELSE ui[r]
        /\ At(r, "unlink") # {} =>
              Cardinality(At(r, "post") \cup At(r, "open")) = Len(created_pngs[r])
        /\ At(r, "unlink_tmp") # {} => Done(r)

\* an upload call with a URL source and two pages has gone through every stage
C13_Witness ==
    \E r \in Reqs :
        /\ Done(r) /\ result[r].kind = "ok"
        /\ Len(log[r]) = 11
        /\ Cardinality(At(r, "post")) = 2
        /\ Cardinality(At(r, "unlink")) = 2
        /\ AtOk(r, "unlink_tmp") # {}

\* ---------------------------------------------------------------- C14
\* the download of request r's URL source failed
DownloadFailed(r) == UrlSource(r) /\ AtFailed(r, "download") # {}

\* C14 as stated: when the download of a URL source fails, the request ends
\* with an error after deleting the temporary file it created, and performs
\* no rasterization, no creation of the destination directory, no page write
\* and no upload.
C14_DownloadFailureTempDeleted ==
    \A r \in Reqs :
        (Done(r) /\ DownloadFailed(r)) =>
            /\ result[r].kind = "error"
            /\ temp_pdf_path[r] \notin tmpFiles
            /\ At(r, "rasterize") = {} /\ At(r, "makedirs") = {}
            /\ At(r, "write") = {} /\ At(r, "post") = {}

\* C14 amended: when the download of a URL source fails, the request ends
\* with the download error after one attempt to delete the temporary file it
\* created, which is gone unless that attempt failed, and performs no
\* rasterization, no creation of the destination directory, no page write, no
\* upload and no deletion of a page file.
C14_DownloadFailureStopsPipeline ==
    \A r \in Reqs :
        /\ DownloadFailed(r) =>
              /\ pc[r] \in {"downloaded", "finally", "done"}
              /\ \A j \in DOMAIN log[r] : log[r][j].op \in {"mktemp", "download", "unlink_tmp"}
              /\ read_tmp[r] = 0 /\ created_pngs[r] = <<>>
        /\ (Done(r) /\ DownloadFailed(r)) =>
              /\ result[r] = Error("DownloadError")
              /\ Ks(log[r]) = <<temp_pdf_path[r], temp_pdf_path[r], temp_pdf_path[r]>>
              /\ log[r][3].op = "unlink_tmp"
              /\ temp_pdf_path[r] \in tmpFiles <=> ~log[r][3].ok

\* an upload call has ended with the download error and its temporary file
\* removed
C14_Witness ==
    \E r \in Reqs :
        /\ Done(r) /\ DownloadFailed(r) /\ name[r] = "pdf2png_upload"
        /\ result[r] = Error("DownloadError")
        /\ tmpFiles = {}

\* ---------------------------------------------------------------- C15
\* request r has been called with a read_file_path that does not begin with
\* http:// or https://
NonUrlCall(r) ==
    /\ pc[r] # "idle"
    /\ ~HasPrefix(arguments[r].read_file_path.val, <<"h", "t", "t", "p", ":", "/", "/">>)
    /\ ~HasPrefix(arguments[r].read_file_path.val, <<"h", "t", "t", "p", "s", ":", "/", "/">>)

SpecFair == Init /\ [][Next]_vars /\ WF_vars(Next)

\* ---------------------------------------------------------------- C16
\* the upload stage of request r has begun
UploadingBegun(r) == ui[r] >= 1

\* the errors of the Resolving, Converting and Writing stages
StageErrors ==
    {"TempFileError", "DownloadError", "ConversionError", "NoPages", "MakeDirsError", "SaveError"}

\* C16: every request that passes validation ends, as Done with the success
\* summary or as Failed with an error and never both; it gets there through
\* the cleanup of the finally clause, which it enters once and leaves only to
\* end; after it has ended it takes no step; and it ends as Failed only with
\* an error of the Resolving, Converting or Writing stage, never once the
\* upload stage has begun.
C16_EndsOnceThroughCleanup ==
    /\ \A r \in Reqs : (pc[r] = "call" /\ PassesValidation(r)) ~> Done(r)
    /\ [](\A r \in Reqs :
            /\ (Done(r) /\ PassesValidation(r)) =>
                  /\ result[r].kind \in {"ok", "error"}
                  /\ result[r].kind = "error" <=> exc[r] # "none"
                  /\ result[r].kind = "error" => result[r].err \in StageErrors
                  /\ result[r].kind = "error" => ~UploadingBegun(r)
            /\ UploadingBegun(r) => exc[r] = "none"
            /\ pc[r] \notin {"finally", "done"} => result[r].kind = "none")
    /\ [][\A r \in Reqs :
            /\ (PassesValidation(r) /\ pc'[r] = "done" /\ pc[r] # "done") => pc[r] = "finally"
            /\ (pc[r] = "finally" /\ pc'[r] # "finally") => pc'[r] = "done"
            /\ pc[r] = "done" =>
                  /\ pc'[r] = "done" /\ result'[r] = result[r] /\ log'[r] = log[r]
                  /\ exc'[r] = exc[r] /\ temp_pdf_path'[r] = temp_pdf_path[r]]_vars

\* an upload call with a URL source has ended as Failed in the Writing stage,
\* after the cleanup removed its temporary file
C16_Witness ==
    \E r \in Reqs :
        /\ Done(r) /\ UrlSource(r) /\ name[r] = "pdf2png_upload"
        /\ result[r] = Error("SaveError")
        /\ AtOk(r, "unlink_tmp") # {}
        /\ AtOk(r, "write") # {}

\* ================================================ calls in flight together
\* the source paths of the concurrent calls: a URL and a local path
ConcArgs ==
    { a \in PlainArgs : a.read_file_path \in {Some(HttpUrl), Some(LocalPath)}
                        /\ a.upload_url = Some(<<"u">>) }

\* Two calls have arrived (requests 1 and 2): a call of either tool and a
\* pdf2png_upload call, both with the same arguments, hence the same
\* write_folder_path, and the same source document; each starts when the
\* event loop gets to it.
InitConc ==
    /\ \E n \in {"pdf2png", "pdf2png_upload"}, a \in ConcArgs, d \in DocKinds :
          /\ name = [r \in Reqs |-> IF r = 1 THEN n ELSE IF r = 2 THEN "pdf2png_upload"
                                     ELSE "other"]
          /\ arguments = [r \in Reqs |-> IF r \in {1, 2} THEN a ELSE NoArgs]
          /\ doc = [r \in Reqs |-> IF r \in {1, 2} THEN d ELSE -1]
    /\ pc = [r \in Reqs |-> IF r \in {1, 2} THEN "call" ELSE "idle"]
    /\ InitLocals
    /\ tmpFiles = {}
    /\ dirExists \in BOOLEAN
    /\ pngs = [k \in Pages |-> 0]

\* the endpoint has accepted every POST it received
EndpointAccepts == \A r \in Reqs : \A j \in DOMAIN log[r] : log[r][j].op = "post" => log[r][j].ok

\* the steps of the calls when the endpoint accepts every POST
NextConc ==
    \E r \in Reqs :
        \/ HandleCallTool(r)
        \/ ValidateArgs(r)
        \/ ResolveSource(r)
        \/ DownloadFile(r)
        \/ DownloadResume(r)
        \/ ConvertFromPath(r)
        \/ MakeDirs(r)
        \/ SavePage(r)
        \/ ReturnSummaryOnly(r)
        \/ CheckPages(r)
        \/ SubmitUpload(r)
        \/ PostFile(r) /\ EndpointAccepts'
        \/ UploadResume(r)
        \/ UnlinkPng(r)
        \/ ReturnSummaryUpload(r)
        \/ Finally(r)

SpecConc == InitConc /\ [][NextConc]_vars

\* ---------------------------------------------------------------- C17
\* request r is a pdf2png_upload call that got to its upload stage, beside
\* another pdf2png_upload call, and the endpoint accepted every POST
UploadedBeside(r) ==
    /\ name[r] = "pdf2png_upload" /\ UploadingBegun(r)
    /\ \E q \in Reqs \ {r} : name[q] = "pdf2png_upload" /\ pc[q] # "idle"
    /\ \A q \in Reqs : AtFailed(q, "post") = {}

\* C17 as stated: when two pdf2png_upload calls with the same
\* write_folder_path are in flight together and the endpoint accepts every
\* POST, each call uploads the page files it wrote itself and reports
\* uploaded M equal to its own N: no page file of a call is overwritten or
\* deleted by the other call before it has been uploaded.
C17_ConcurrentUploadsUndisturbed ==
    \A r \in Reqs :
        (Done(r) /\ UploadedBeside(r)) =>
            /\ result[r].kind = "ok"
            /\ result[r].uploaded = result[r].pages
            /\ At(r, "open") = {}
            /\ \A j \in At(r, "post") : log[r][j].owner = r

\* C17 amended: when two pdf2png_upload calls with the same write_folder_path
\* are in flight together and the endpoint accepts every POST, each call
\* attempts one upload for each of the N page paths it wrote, in page order,
\* and reports uploaded M equal to the number of those attempts that found a
\* file at the path, so M <= N; an attempt finds no file when the other call
\* has deleted it meanwhile, and the file it finds may be the one the other
\* call wrote over it. Beside a pdf2png call, which deletes nothing, M = N.
C17_ConcurrentUploadsCounted ==
    \A r \in Reqs :
        /\ (Done(r) /\ UploadedBeside(r)) =>
              /\ result[r].kind = "ok"
              /\ result[r].pages = doc[r]
              /\ Ks(Filter(log[r], "write")) = OneTo(doc[r])
              /\ Len(Filter(log[r], "post")) + Len(Filter(log[r], "open")) = doc[r]
              /\ \A k \in 1..doc[r] : \E j \in At(r, "post") \cup At(r, "open") : log[r][j].k = k
              /\ result[r].uploaded = Cardinality(At(r, "post"))
              /\ \A j \in At(r, "post") : log[r][j].owner # 0
              /\ \A j \in At(r, "open") :
                    \E q \in Reqs \ {r} : \E u \in AtOk(q, "unlink") : log[q][u].k = log[r][j].k
        /\ (Done(r) /\ name[r] = "pdf2png_upload" /\ UploadingBegun(r)
              /\ AtFailed(r, "post") = {}
              /\ \A q \in Reqs \ {r} : name[q] # "pdf2png_upload") =>
              /\ result[r].uploaded = doc[r]
              /\ At(r, "open") = {}

\* both upload calls have returned; request 1 reports one page of two
\* uploaded, the other file having been deleted by request 2, and the page it
\* did upload was the file request 2 wrote
C17_Witness ==
    /\ Done(1) /\ Done(2) /\ UploadedBeside(1)
    /\ result[1].pages = 2 /\ result[1].uploaded = 1
    /\ \E j \in At(1, "post") : log[1][j].owner = 2
    /\ At(1, "open") # {}

\* ---------------------------------------------------------------- C18
\* request r holds a temporary download file and has not ended
HoldsTemp(r) == temp_pdf_path[r] # 0 /\ ~Done(r)

\* the operations of request r on a temporary file
TempOps(r) ==
    {j \in DOMAIN log[r] :
        \/ log[r][j].op \in {"download", "unlink_tmp"}
        \/ log[r][j].op = "mktemp" /\ log[r][j].ok
        \/ log[r][j].op = "rasterize" /\ log[r][j].k # 0}

\* C18: requests in flight together hold distinct temporary download files; a
\* request's temporary file exists for as long as the request holds it, every
\* operation of a request on a temporary file is on its own, and a step that
\* deletes a temporary file or rasterizes one is a step of the request that
\* holds it and of no other.
C18_TempFileOwnedByOneRequest ==
    /\ [](\A r \in Reqs :
            /\ HoldsTemp(r) => temp_pdf_path[r] \in tmpFiles
            /\ \A q \in Reqs \ {r} :
                  (HoldsTemp(r) /\ HoldsTemp(q)) => temp_pdf_path[r] # temp_pdf_path[q]
            /\ \A j \in TempOps(r) : log[r][j].k = temp_pdf_path[r]
            /\ read_tmp[r] \in {0, temp_pdf_path[r]})
    /\ [][\A t \in TempNames :
            /\ (t \in tmpFiles /\ t \notin tmpFiles') =>
                  \E r \in Reqs :
                     /\ pc[r] = "finally" /\ pc'[r] = "done" /\ temp_pdf_path[r] = t
                     /\ \A q \in Reqs \ {r} : HoldsTemp(q) => temp_pdf_path[q] # t
            /\ \A r \in Reqs :
                  (pc[r] = "convert" /\ pc'[r] # "convert" /\ read_tmp[r] = t) =>
                     /\ temp_pdf_path[r] = t
                     /\ \A q \in Reqs \ {r} : HoldsTemp(q) => temp_pdf_path[q] # t]_vars

\* request 1 has deleted its temporary file and ended while request 2 is
\* uploading from its own, which still exists
C18_Witness ==
    /\ Done(1) /\ AtOk(1, "unlink_tmp") # {}
    /\ pc[2] = "posting" /\ HoldsTemp(2)
    /\ temp_pdf_path[2] \in tmpFiles
    /\ temp_pdf_path[1] # temp_pdf_path[2]

====
